---- MODULE Spec2Model ----
(***************************************************************************)
(* Risk scoring engine of api-showcase                                     *)
(* (src/api_showcase/risk_score/calculate_risk_scores.py).                 *)
(*                                                                         *)
(* Python strings are sequences of one-character strings, Python dicts are *)
(* records whose DOMAIN is the set of keys present, Python lists are       *)
(* sequences.  A float with four decimals (risk_ratio) is the integer      *)
(* number of ten-thousandths.                                              *)
(***************************************************************************)
EXTENDS Integers, Sequences, FiniteSets, TLC

VARIABLES pc, data, all_questions, report, rows, fields, identifier, parsed, node,
          yes_no_value, calls, confirm, dry_run, concurrency, access_token, documents,
          semaphore, worker, nonlocal_access_token_holder, results, network,
          document_ids, max_concurrent, fetch_with_semaphore, results_dict

\* the variables of the risk scoring of one payload, pc aside
score_vars ==
    <<data, all_questions, report, rows, fields, identifier, parsed, node, yes_no_value>>

\* the variables of delete_all_document_exports
delete_vars ==
    <<confirm, dry_run, concurrency, access_token, documents, worker,
      nonlocal_access_token_holder, results>>

\* the semaphore of the running tasks and the calls made over the network
net_vars == <<semaphore, network>>

\* the variables of get_documents_by_ids
fetch_vars == <<document_ids, max_concurrent, fetch_with_semaphore, results_dict>>

\* the variables of the concurrent callers
pull_vars == <<calls, delete_vars, fetch_vars, net_vars>>

vars == <<pc, score_vars, pull_vars>>

(***************************************************************************)
(* Bounds of the model.                                                    *)
(***************************************************************************)
\* greatest number of nodes (categories included) below a document root
MaxNodes == 4
\* greatest points value rendered into an identifier by the round trip
MaxPoints == 120
\* greatest number of nodes below the node handed to get_yes_no_value
MaxAnswerNodes == 3

\* the value of a variable that holds nothing yet
None == [none |-> TRUE]

\* delete_all_document_exports is not running
DeleteIdle ==
    /\ confirm = FALSE
    /\ dry_run = FALSE
    /\ concurrency = 0
    /\ access_token = 0
    /\ documents = <<>>
    /\ worker = <<>>
    /\ nonlocal_access_token_holder = <<>>
    /\ results = <<>>

\* no task holds a semaphore and no call has been made over the network
NetIdle == semaphore = 0 /\ network = {}

\* get_documents_by_ids is not running
FetchIdle ==
    /\ document_ids = <<>>
    /\ max_concurrent = 0
    /\ fetch_with_semaphore = <<>>
    /\ results_dict = <<>>

\* no concurrent caller is running
PullIdle == calls = None /\ DeleteIdle /\ FetchIdle /\ NetIdle

\* no payload is being scored
ScoreIdle ==
    /\ data = None
    /\ all_questions = <<>>
    /\ report = None
    /\ rows = <<>>
    /\ fields = None
    /\ identifier = <<>>
    /\ parsed = None
    /\ node = None
    /\ yes_no_value = TRUE

(***************************************************************************)
(* str: the methods of Python's str the program uses.                      *)
(***************************************************************************)
DecimalChars == <<"0", "1", "2", "3", "4", "5", "6", "7", "8", "9">>

\* a character str.isdigit() accepts and int() rejects (U+00B2)
SuperscriptTwo == "^2"

Whitespace == {" ", "\t", "\n", "\r"}

UpperChars == <<"A", "B", "C", "D", "E", "F", "G", "H", "I", "J", "K", "L", "M",
                "N", "O", "P", "Q", "R", "S", "T", "U", "V", "W", "X", "Y", "Z">>

LowerChars == <<"a", "b", "c", "d", "e", "f", "g", "h", "i", "j", "k", "l", "m",
                "n", "o", "p", "q", "r", "s", "t", "u", "v", "w", "x", "y", "z">>

Range(s) == {s[i] : i \in DOMAIN s}

IndexOf(s, c) == CHOOSE i \in DOMAIN s : s[i] = c

\* str.lower()
LowerChar(c) == IF c \in Range(UpperChars) THEN LowerChars[IndexOf(UpperChars, c)] ELSE c

Lower(s) == [i \in 1..Len(s) |-> LowerChar(s[i])]

\* str.count(c) for a one-character c
Count(s, c) == Cardinality({i \in 1..Len(s) : s[i] = c})

\* c in s
Contains(s, c) == \E i \in 1..Len(s) : s[i] = c

\* str.strip()
RECURSIVE LStrip(_)
LStrip(s) == IF s # <<>> /\ Head(s) \in Whitespace THEN LStrip(Tail(s)) ELSE s

RECURSIVE RStrip(_)
RStrip(s) ==
    IF s # <<>> /\ s[Len(s)] \in Whitespace THEN RStrip(SubSeq(s, 1, Len(s) - 1)) ELSE s

Strip(s) == RStrip(LStrip(s))

\* str.split(sep) for a one-character sep
RECURSIVE Split(_, _)
Split(s, sep) ==
    IF ~Contains(s, sep) THEN <<s>>
    ELSE LET i == CHOOSE k \in 1..Len(s) : s[k] = sep /\ \A j \in 1..(k - 1) : s[j] # sep
         IN  <<SubSeq(s, 1, i - 1)>> \o Split(SubSeq(s, i + 1, Len(s)), sep)

\* str.isdigit()
IsDigit(s) == s # <<>> /\ \A i \in 1..Len(s) : s[i] \in Range(DecimalChars) \cup {SuperscriptTwo}

\* what a call that raised leaves in place of its result
ValueError == [raised |-> "ValueError"]

\* int(s) raises ValueError: s is empty or has a character that is no decimal digit
IntRaises(s) == s = <<>> \/ \E i \in 1..Len(s) : s[i] \notin Range(DecimalChars)

\* int(s) for an s of decimal digits
RECURSIVE IntOf(_)
IntOf(s) ==
    IF s = <<>> THEN 0
    ELSE 10 * IntOf(SubSeq(s, 1, Len(s) - 1)) + (IndexOf(DecimalChars, s[Len(s)]) - 1)

\* str(n) for an int n >= 0
RECURSIVE StrOfInt(_)
StrOfInt(n) ==
    IF n < 10 THEN <<DecimalChars[n + 1]>>
    ELSE StrOfInt(n \div 10) \o <<DecimalChars[(n % 10) + 1]>>

\* str(b) for a bool b
StrOfBool(b) == IF b THEN <<"T", "r", "u", "e">> ELSE <<"F", "a", "l", "s", "e">>

true == <<"t", "r", "u", "e">>

(***************************************************************************)
(* dict: d.get(k, default) and the keys of a document node                 *)
(***************************************************************************)
HasKey(d, k) == k \in DOMAIN d

Get(d, k, default) == IF HasKey(d, k) THEN d[k] ELSE default

\* d with d[k] = v
Put(d, k, v) == [j \in DOMAIN d \cup {k} |-> IF j = k THEN v ELSE d[j]]

\* d without the key k
Del(d, k) == [j \in DOMAIN d \ {k} |-> d[j]]

DisplayNameKey == "document_class_display_name"

IdentifierKey == "document_class_identifier_by_organization"

(***************************************************************************)
(* parse_identifier_fields                                                 *)
(***************************************************************************)
\* [part.strip() for part in identifier.split('|')]
Parts(ident) ==
    LET split == Split(ident, "|")
    IN  [i \in 1..Len(split) |-> Strip(split[i])]

\* the call raises: parts[1] passes isdigit() and int() rejects it
parse_identifier_fields_raises(ident) ==
    /\ ~(ident = <<>> \/ Count(ident, "|") < 3)
    /\ IsDigit(Parts(ident)[2])
    /\ IntRaises(Parts(ident)[2])

\* parse_identifier_fields with the two flags read from each other's field
parse_identifier_fields_swapped(ident) ==
    IF ident = <<>> \/ Count(ident, "|") < 3
    THEN [points |-> 0, is_ko |-> FALSE, is_plausible |-> FALSE]
    ELSE LET parts == Parts(ident)
         IN  [points |-> IF IsDigit(parts[2]) THEN IntOf(parts[2]) ELSE 0,
              is_ko |-> Lower(parts[4]) = true,
              is_plausible |-> Lower(parts[3]) = true]

\* parse_identifier_fields comparing the flags without lower()
parse_identifier_fields_case_sensitive(ident) ==
    IF ident = <<>> \/ Count(ident, "|") < 3
    THEN [points |-> 0, is_ko |-> FALSE, is_plausible |-> FALSE]
    ELSE LET parts == Parts(ident)
         IN  [points |-> IF IsDigit(parts[2]) THEN IntOf(parts[2]) ELSE 0,
              is_ko |-> parts[3] = true,
              is_plausible |-> parts[4] = true]

parse_identifier_fields(ident) ==
    IF ident = <<>> \/ Count(ident, "|") < 3
    THEN [points |-> 0, is_ko |-> FALSE, is_plausible |-> FALSE]
    ELSE LET parts == Parts(ident)
         IN  [points |-> IF IsDigit(parts[2]) THEN IntOf(parts[2]) ELSE 0,
              is_ko |-> Lower(parts[3]) = true,
              is_plausible |-> Lower(parts[4]) = true]

(***************************************************************************)
(* get_yes_no_value                                                        *)
(***************************************************************************)
YesNo == <<"Y", "e", "s", "/", "N", "o">>

\* the loop of get_yes_no_value returning False when no child is named "Yes/No"
RECURSIVE get_yes_no_value_loop_default_false(_)
get_yes_no_value_loop_default_false(children) ==
    IF children = <<>> THEN FALSE
    ELSE LET child == Head(children)
         IN  IF HasKey(child, DisplayNameKey) /\ child[DisplayNameKey] = YesNo
             THEN Lower(Get(child, "value", <<>>)) = true
             ELSE get_yes_no_value_loop_default_false(Tail(children))

\* the loop of get_yes_no_value matching the display name in any case
RECURSIVE get_yes_no_value_loop_any_case(_)
get_yes_no_value_loop_any_case(children) ==
    IF children = <<>> THEN TRUE
    ELSE LET child == Head(children)
         IN  IF HasKey(child, DisplayNameKey) /\ Lower(child[DisplayNameKey]) = Lower(YesNo)
             THEN Lower(Get(child, "value", <<>>)) = true
             ELSE get_yes_no_value_loop_any_case(Tail(children))

\* the for loop of get_yes_no_value over the children not yet visited
RECURSIVE get_yes_no_value_loop(_)
get_yes_no_value_loop(children) ==
    IF children = <<>> THEN TRUE
    ELSE LET child == Head(children)
         IN  IF HasKey(child, DisplayNameKey) /\ child[DisplayNameKey] = YesNo
             THEN Lower(Get(child, "value", <<>>)) = true
             ELSE get_yes_no_value_loop(Tail(children))

get_yes_no_value(n) == get_yes_no_value_loop(Get(n, "children", <<>>))

\* get_document_id with the default of create_csv_report
get_document_id_unknown(document) ==
    Get(document, "document_id", <<"u", "n", "k", "n", "o", "w", "n">>)

get_document_id(document) == Get(document, "document_id", <<>>)

(***************************************************************************)
(* collect_questions                                                       *)
(***************************************************************************)
\* the test of collect_questions asking for the 3 pipes of a full identifier
IsQuestion_three_pipes(child) ==
    /\ HasKey(child, IdentifierKey)
    /\ child[IdentifierKey] # <<>>
    /\ Count(child[IdentifierKey], "|") >= 3

\* identifier and '|' in identifier
IsQuestion(child) ==
    /\ HasKey(child, IdentifierKey)
    /\ child[IdentifierKey] # <<>>
    /\ Contains(child[IdentifierKey], "|")

Question(child) ==
    LET ident == child[IdentifierKey]
        parsed_fields == parse_identifier_fields(ident)
    IN  [identifier |-> ident,
         points |-> parsed_fields.points,
         is_ko |-> parsed_fields.is_ko,
         is_plausible |-> parsed_fields.is_plausible,
         yes_no_value |-> get_yes_no_value(child),
         node |-> child]

\* child.get('children') is truthy
HasChildren(child) == HasKey(child, "children") /\ child.children # <<>>

\* collect_questions recursing only below the nodes that emitted no question
RECURSIVE collect_questions_no_nesting(_)
collect_questions_no_nesting(children) ==
    IF children = <<>> THEN <<>>
    ELSE LET child == Head(children)
         IN  (IF IsQuestion(child) THEN <<Question(child)>>
              ELSE IF HasChildren(child) THEN collect_questions_no_nesting(child.children)
              ELSE <<>>)
             \o collect_questions_no_nesting(Tail(children))

\* collect_questions emitting the questions below a node before its own
RECURSIVE collect_questions_post_order(_)
collect_questions_post_order(children) ==
    IF children = <<>> THEN <<>>
    ELSE LET child == Head(children)
         IN  (IF HasChildren(child) THEN collect_questions_post_order(child.children)
              ELSE <<>>)
             \o (IF IsQuestion(child) THEN <<Question(child)>> ELSE <<>>)
             \o collect_questions_post_order(Tail(children))

RECURSIVE collect_questions(_)
collect_questions(children) ==
    IF children = <<>> THEN <<>>
    ELSE LET child == Head(children)
         IN  (IF IsQuestion(child) THEN <<Question(child)>> ELSE <<>>)
             \o (IF HasChildren(child) THEN collect_questions(child.children) ELSE <<>>)
             \o collect_questions(Tail(children))

\* the call raises: parse_identifier_fields raises on some node of the forest
RECURSIVE collect_questions_raises(_)
collect_questions_raises(children) ==
    \E i \in 1..Len(children) :
        \/ IsQuestion(children[i]) /\ parse_identifier_fields_raises(children[i][IdentifierKey])
        \/ HasChildren(children[i]) /\ collect_questions_raises(children[i].children)

(***************************************************************************)
(* The aggregates                                                          *)
(***************************************************************************)
\* sum(numbers)
RECURSIVE Sum(_)
Sum(numbers) == IF numbers = <<>> THEN 0 ELSE Head(numbers) + Sum(Tail(numbers))

Points(q) == q.points

AnsweredNoPoints(q) == IF ~q.yes_no_value THEN q.points ELSE 0

RiskPoints(q) == IF q.is_ko /\ ~q.yes_no_value THEN q.points ELSE 0

\* calculate_total_risk_score summing every question answered no, KO or not
calculate_total_risk_score_any_no(questions) ==
    Sum([i \in DOMAIN questions |-> AnsweredNoPoints(questions[i])])

calculate_total_risk_score(questions) ==
    Sum([i \in DOMAIN questions |-> RiskPoints(questions[i])])

AnsweredNo(q) == IF ~q.yes_no_value THEN 1 ELSE 0

count_questions_answered_no(questions) ==
    Sum([i \in DOMAIN questions |-> AnsweredNo(questions[i])])

\* the KO test of count_ko_questions_answered_no without the answer
KoAnsweredNo_any_answer(q) == IF q.is_ko THEN 1 ELSE 0

KoAnsweredNo(q) == IF q.is_ko /\ ~q.yes_no_value THEN 1 ELSE 0

count_ko_questions_answered_no(questions) ==
    Sum([i \in DOMAIN questions |-> KoAnsweredNo(questions[i])])

PlausibleAnsweredNo(q) == IF q.is_plausible /\ ~q.yes_no_value THEN 1 ELSE 0

\* count_plausible_checks_answered_no counting the KO questions as well
count_plausible_checks_answered_no_or_ko(questions) ==
    Sum([i \in DOMAIN questions |->
            IF (questions[i].is_plausible \/ questions[i].is_ko) /\ ~questions[i].yes_no_value
            THEN 1 ELSE 0])

count_plausible_checks_answered_no(questions) ==
    Sum([i \in DOMAIN questions |-> PlausibleAnsweredNo(questions[i])])

\* the KO test of number_of_ko_questions passing over questions of no points
IsKo_with_points(q) == IF q.is_ko /\ q.points > 0 THEN 1 ELSE 0

IsKo(q) == IF q.is_ko THEN 1 ELSE 0

IsPlausibleCheck(q) == IF q.is_plausible THEN 1 ELSE 0

\* round(n / d, 4) in ten-thousandths, for d > 0: the float n / d is rounded to
\* the nearest multiple of 0.0001; n / d lies exactly between two of them only
\* when it is a multiple of 1/32 (for d < 160), which a float holds exactly,
\* and round() then takes the even one
Round4(n, d) ==
    LET q == (10000 * n) \div d
        r == (10000 * n) % d
    IN  IF 2 * r < d THEN q
        ELSE IF 2 * r > d THEN q + 1
        ELSE IF q % 2 = 0 THEN q ELSE q + 1

\* the ratio cut off after 4 decimals instead of rounded
RiskRatio_truncated(score, max_points) ==
    IF max_points > 0 THEN (10000 * score) \div max_points ELSE 0

\* a ratio of 1 where there are no points to lose
RiskRatio_default_one(score, max_points) ==
    IF max_points > 0 THEN Round4(score, max_points) ELSE 10000

\* round(score / max_points if max_points > 0 else 0, 4)
RiskRatio(score, max_points) == IF max_points > 0 THEN Round4(score, max_points) ELSE 0

(***************************************************************************)
(* calculate_category_metrics                                              *)
(***************************************************************************)
Unknown == <<"U", "n", "k", "n", "o", "w", "n">>

\* calculate_category_metrics collecting from the category node itself
calculate_category_metrics_with_self(category_node) ==
    LET questions == collect_questions(<<category_node>>)
        max_points == Sum([i \in DOMAIN questions |-> Points(questions[i])])
        risk_score == calculate_total_risk_score(questions)
    IN  [category_name |->
             Get(category_node, IdentifierKey, Get(category_node, DisplayNameKey, Unknown)),
         max_total_risk_points |-> max_points,
         total_risk_score |-> risk_score,
         risk_ratio |-> RiskRatio(risk_score, max_points)]

\* calculate_category_metrics naming the category by the first non-empty name
calculate_category_metrics_first_non_empty(category_node) ==
    LET questions == collect_questions(Get(category_node, "children", <<>>))
        max_points == Sum([i \in DOMAIN questions |-> Points(questions[i])])
        risk_score == calculate_total_risk_score(questions)
        named == Get(category_node, IdentifierKey, <<>>)
        shown == Get(category_node, DisplayNameKey, <<>>)
    IN  [category_name |->
             IF named # <<>> THEN named ELSE IF shown # <<>> THEN shown ELSE Unknown,
         max_total_risk_points |-> max_points,
         total_risk_score |-> risk_score,
         risk_ratio |-> RiskRatio(risk_score, max_points)]

calculate_category_metrics(category_node) ==
    LET questions == collect_questions(Get(category_node, "children", <<>>))
        max_points == Sum([i \in DOMAIN questions |-> Points(questions[i])])
        risk_score == calculate_total_risk_score(questions)
    IN  [category_name |->
             Get(category_node, IdentifierKey, Get(category_node, DisplayNameKey, Unknown)),
         max_total_risk_points |-> max_points,
         total_risk_score |-> risk_score,
         risk_ratio |-> RiskRatio(risk_score, max_points)]

(***************************************************************************)
(* analyze_document                                                        *)
(***************************************************************************)
\* str.lstrip(c) removing one leading c only
LStripChar_once(s, c) == IF s # <<>> /\ Head(s) = c THEN Tail(s) ELSE s

\* str.lstrip(c) for a one-character c
RECURSIVE LStripChar(_, _)
LStripChar(s, c) == IF s # <<>> /\ Head(s) = c THEN LStripChar(Tail(s), c) ELSE s

\* the loop of lines 181-183 assigning each category's questions to the
\* list instead of extending it
CollectAll_assign(root_children) ==
    IF root_children = <<>> THEN <<>>
    ELSE collect_questions(Get(root_children[Len(root_children)], "children", <<>>))

\* the questions collected by one traversal from the document root
CollectAll_from_root(root_children) == collect_questions(root_children)

\* the loop of lines 181-183 over the categories not yet visited
RECURSIVE CollectAll(_)
CollectAll(root_children) ==
    IF root_children = <<>> THEN <<>>
    ELSE collect_questions(Get(Head(root_children), "children", <<>>))
         \o CollectAll(Tail(root_children))

RootChildren(payload) == Get(Get(payload, "document", <<>>), "children", <<>>)

AllQuestions(payload) == CollectAll(RootChildren(payload))

analyze_document_raises(payload) ==
    \E i \in 1..Len(RootChildren(payload)) :
        collect_questions_raises(Get(RootChildren(payload)[i], "children", <<>>))

analyze_document(payload) ==
    LET upload_data == Get(payload, "upload", <<>>)
        document == Get(payload, "document", <<>>)
        root_children == Get(document, "children", <<>>)
        questions == CollectAll(root_children)
        number_of_plausible_checks_answered_no == count_plausible_checks_answered_no(questions)
        max_total_risk_points == Sum([i \in DOMAIN questions |-> Points(questions[i])])
        total_risk_score == calculate_total_risk_score(questions)
    IN  [document_id |-> get_document_id(document),
         filename |-> Get(upload_data, "document_id_by_organization", <<>>),
         assessment |-> LStripChar(Get(document, "document_class", <<>>), "/"),
         number_of_questions |-> Len(questions),
         number_of_ko_questions |-> Sum([i \in DOMAIN questions |-> IsKo(questions[i])]),
         number_of_plausible_checks |->
             Sum([i \in DOMAIN questions |-> IsPlausibleCheck(questions[i])]),
         number_of_questions_answered_no |-> count_questions_answered_no(questions),
         number_of_ko_questions_answered_no |-> count_ko_questions_answered_no(questions),
         number_of_plausible_checks_answered_no |-> number_of_plausible_checks_answered_no,
         is_plausible |-> (number_of_plausible_checks_answered_no = 0),
         max_total_risk_points |-> max_total_risk_points,
         total_risk_score |-> total_risk_score,
         risk_ratio |-> RiskRatio(total_risk_score, max_total_risk_points),
         categories |-> [i \in 1..Len(root_children) |->
                            calculate_category_metrics(root_children[i])]]

(***************************************************************************)
(* Inputs: document nodes and payloads (spec.md section 6)                 *)
(***************************************************************************)
(***************************************************************************)
(* create_csv_report: the rows handed to csv.DictWriter                    *)
(***************************************************************************)
Yes == <<"Y", "e", "s">>

No == <<"N", "o">>

\* q['identifier'].split('|')[0].strip() if '|' in q['identifier'] else q['identifier']
QuestionText(q) ==
    IF Contains(q.identifier, "|") THEN Strip(Split(q.identifier, "|")[1]) ELSE q.identifier

\* the row of a question with the points of every question answered no
Row_any_no(category_name, q) ==
    [category |-> category_name,
     question |-> QuestionText(q),
     answer |-> IF q.yes_no_value THEN Yes ELSE No,
     potential_risk_points |-> q.points,
     actual_risk_points |-> IF ~q.yes_no_value THEN q.points ELSE 0,
     ko_question |-> IF q.is_ko THEN Yes ELSE No,
     plausible_check |-> IF q.is_plausible THEN Yes ELSE No]

\* the row appended for the question q of a category
Row(category_name, q) ==
    [category |-> category_name,
     question |-> QuestionText(q),
     answer |-> IF q.yes_no_value THEN Yes ELSE No,
     potential_risk_points |-> q.points,
     actual_risk_points |-> IF q.is_ko /\ ~q.yes_no_value THEN q.points ELSE 0,
     ko_question |-> IF q.is_ko THEN Yes ELSE No,
     plausible_check |-> IF q.is_plausible THEN Yes ELSE No]

\* the rows of one category collected from the category node itself
CategoryRows_with_self(category_node) ==
    LET category_name ==
            Get(category_node, IdentifierKey, Get(category_node, DisplayNameKey, Unknown))
        questions == collect_questions(<<category_node>>)
    IN  [i \in DOMAIN questions |-> Row(category_name, questions[i])]

\* the rows of one category
CategoryRows(category_node) ==
    LET category_name ==
            Get(category_node, IdentifierKey, Get(category_node, DisplayNameKey, Unknown))
        questions == collect_questions(Get(category_node, "children", <<>>))
    IN  [i \in DOMAIN questions |-> Row(category_name, questions[i])]

\* the loop of lines 30-59 over the categories not yet visited
RECURSIVE Rows(_)
Rows(root_children) ==
    IF root_children = <<>> THEN <<>>
    ELSE CategoryRows(Head(root_children)) \o Rows(Tail(root_children))

create_csv_report_raises(payload) == analyze_document_raises(payload)

create_csv_report(payload) == Rows(Get(Get(payload, "document", <<>>), "children", <<>>))

false == <<"f", "a", "l", "s", "e">>

AgeCheckIdentifier ==
    <<"A", "g", "e", " ", "c", "h", "e", "c", "k", " ", "|", " ", "1", "0", " ", "|", " ",
      "t", "r", "u", "e", " ", "|", " ", "f", "a", "l", "s", "e">>

IncomeCheckIdentifier ==
    <<"I", "n", "c", "o", "m", "e", " ", "c", "h", "e", "c", "k", " ", "|", " ", "5", " ",
      "|", " ", "f", "a", "l", "s", "e", " ", "|", " ", "t", "r", "u", "e">>

\* an identifier with fewer than 3 pipes
ShortIdentifier == <<"a", "|", "b">>

\* the answer node of a question answered no
YesNoFalse == [document_class_display_name |-> YesNo, value |-> false]

AgeCheck ==
    [document_class_display_name |-> <<"Q", "1">>,
     document_class_identifier_by_organization |-> AgeCheckIdentifier]

IncomeCheck ==
    [document_class_display_name |-> <<"Q", "2">>,
     document_class_identifier_by_organization |-> IncomeCheckIdentifier]

Short == [document_class_identifier_by_organization |-> ShortIdentifier]

\* a grouping node: an empty identifier, and a children list even when empty
Group ==
    [document_class_display_name |-> <<"G">>,
     document_class_identifier_by_organization |-> <<>>,
     children |-> <<>>]

NodeLabels == {YesNoFalse, AgeCheck, IncomeCheck, Short, Group}

\* the node of label l above the forest f
Node(l, f) == IF f = <<>> THEN l ELSE Put(l, "children", f)

\* a category with a display name and no identifier
Section == [document_class_display_name |-> <<"S">>]

\* a category with neither a display name nor an identifier
Bare == [value |-> <<>>]

CategoryLabels == {Section, AgeCheck, Bare}

\* A forest of n nodes is its nodes in pre-order, each with its depth (the
\* depth of a root is 1) and its label: a node is at most one level below the
\* node before it.
IsPreOrder(depth, n) ==
    IF n = 0 THEN TRUE
    ELSE depth[1] = 1 /\ \A i \in 1..(n - 1) : depth[i + 1] <= depth[i] + 1

\* the first node after lo, up to hi, that is no descendant of node lo
NextSibling(depth, lo, hi) ==
    IF \E j \in (lo + 1)..hi : depth[j] <= depth[lo]
    THEN CHOOSE j \in (lo + 1)..hi :
             depth[j] <= depth[lo] /\ \A k \in (lo + 1)..(j - 1) : depth[k] > depth[lo]
    ELSE hi + 1

\* the forest of the nodes lo..hi
RECURSIVE Forest(_, _, _, _)
Forest(depth, label, lo, hi) ==
    IF lo > hi THEN <<>>
    ELSE LET next == NextSibling(depth, lo, hi)
         IN  <<Node(label[lo], Forest(depth, label, lo + 1, next - 1))>>
             \o Forest(depth, label, next, hi)

Upload == [document_id_by_organization |-> <<"f", ".", "p", "d", "f">>]

Document(root_children) ==
    [document_id |-> <<"d", "1">>,
     document_class |-> <<"/", "R", "i", "s", "k">>,
     children |-> root_children]

Payload(root_children) == [upload |-> Upload, document |-> Document(root_children)]

(***************************************************************************)
(* Spec: one payload is analysed (main.py: analyze_document(data=data))    *)
(***************************************************************************)
Init ==
    /\ pc = "start"
    /\ \E n \in 0..MaxNodes :
         \E depth \in [1..n -> 1..n] :
             /\ IsPreOrder(depth, n)
             /\ \E label \in [1..n -> CategoryLabels \cup NodeLabels] :
                    /\ \A i \in 1..n :
                           label[i] \in IF depth[i] = 1 THEN CategoryLabels ELSE NodeLabels
                    /\ data = Payload(Forest(depth, label, 1, n))
    /\ all_questions = <<>>
    /\ report = None
    /\ rows = <<>>
    /\ PullIdle
    /\ fields = None
    /\ identifier = <<>>
    /\ parsed = None
    /\ node = None
    /\ yes_no_value = TRUE

AnalyzeDocument ==
    /\ pc = "start"
    /\ pc' = "done"
    /\ all_questions' = IF analyze_document_raises(data) THEN <<>> ELSE AllQuestions(data)
    /\ report' = IF analyze_document_raises(data) THEN ValueError ELSE analyze_document(data)
    /\ UNCHANGED <<data, fields, identifier, parsed, node, yes_no_value, rows, pull_vars>>

Next == AnalyzeDocument

Spec == Init /\ [][Next]_vars

(***************************************************************************)
(* SpecParse: an identifier is rendered from its three fields and parsed   *)
(***************************************************************************)
Sep == <<" ", "|", " ">>

\* f"Q | {points} | {is_ko} | {is_plausible}"
Render(f) ==
    <<"Q">> \o Sep \o StrOfInt(f.points) \o Sep \o StrOfBool(f.is_ko)
            \o Sep \o StrOfBool(f.is_plausible)

InitParse ==
    /\ pc = "format"
    /\ fields \in [points : 0..MaxPoints, is_ko : BOOLEAN, is_plausible : BOOLEAN]
    /\ identifier = <<>>
    /\ parsed = None
    /\ data = None
    /\ all_questions = <<>>
    /\ report = None
    /\ rows = <<>>
    /\ PullIdle
    /\ node = None
    /\ yes_no_value = TRUE

FormatIdentifier ==
    /\ pc = "format"
    /\ pc' = "parse"
    /\ identifier' = Render(fields)
    /\ UNCHANGED <<data, all_questions, report, fields,
                   parsed, node, yes_no_value, rows, pull_vars>>

ParseIdentifierFields ==
    /\ pc = "parse"
    /\ pc' = "done"
    /\ parsed' = IF parse_identifier_fields_raises(identifier) THEN ValueError
                 ELSE parse_identifier_fields(identifier)
    /\ UNCHANGED <<data, all_questions, report, fields,
                   identifier, node, yes_no_value, rows, pull_vars>>

NextParse == FormatIdentifier \/ ParseIdentifierFields

SpecParse == InitParse /\ [][NextParse]_vars

(***************************************************************************)
(* SpecRaw: an identifier of arbitrary fields is parsed                    *)
(***************************************************************************)
\* greatest number of fields of a raw identifier
MaxFields == 4

\* what a field between two pipes may hold: nothing, digits with and without
\* blanks around them, a sign, a digit that is no decimal, "true" in several
\* cases and with blanks, another word
FieldSamples ==
    {<<>>,
     <<" ", "7", " ">>,
     <<"1", "2">>,
     <<"-", "3">>,
     <<SuperscriptTwo>>,
     <<"\t", "T", "r", "U", "e", " ">>,
     <<"t", "r", "u", "e">>,
     <<"n", "o">>}

\* '|'.join(parts)
RECURSIVE Join(_)
Join(parts) ==
    IF Len(parts) = 1 THEN parts[1]
    ELSE parts[1] \o <<"|">> \o Join(Tail(parts))

InitRaw ==
    /\ pc = "parse"
    /\ \E n \in 1..MaxFields :
         \E parts \in [1..n -> FieldSamples] : identifier = Join(parts)
    /\ fields = None
    /\ parsed = None
    /\ data = None
    /\ all_questions = <<>>
    /\ report = None
    /\ rows = <<>>
    /\ PullIdle
    /\ node = None
    /\ yes_no_value = TRUE

NextRaw == ParseIdentifierFields

SpecRaw == InitRaw /\ [][NextRaw]_vars

(***************************************************************************)
(* SpecSections: payloads with sections, keys and children missing or      *)
(* empty are analysed                                                      *)
(***************************************************************************)
\* greatest number of nodes of a document of SpecSections
MaxSectionNodes == 3

\* greatest number of leading slashes of a document_class
MaxSlashes == 2

\* a question-bearing node with an empty children list
EmptyQuestion == Put(IncomeCheck, "children", <<>>)

SectionCategoryLabels == {Section, Bare, Group, AgeCheck}

SectionNodeLabels == {EmptyQuestion, AgeCheck, Group, YesNoFalse}

\* '/' * k
Slashes(k) == [i \in 1..k |-> "/"]

ClassBodies == {<<>>, <<"R", "/", "k">>}

\* the document section: no document_id and no document_class when k < 0,
\* no children key unless has_children
DocumentSection(k, body, has_children, root_children) ==
    LET keyed == IF k < 0 THEN <<>>
                 ELSE [document_id |-> <<"d", "1">>, document_class |-> Slashes(k) \o body]
    IN  IF has_children THEN Put(keyed, "children", root_children) ELSE keyed

\* the upload section without its key, and in full
UploadSection(kind) == IF kind = "empty" THEN <<>> ELSE Upload

SectionsPayload(upload_kind, has_document, document) ==
    LET uploaded == IF upload_kind = "absent" THEN <<>>
                    ELSE [upload |-> UploadSection(upload_kind)]
    IN  IF has_document THEN Put(uploaded, "document", document) ELSE uploaded

InitSections ==
    /\ pc = "start"
    /\ \E upload_kind \in {"absent", "empty", "full"}, k \in (-1)..MaxSlashes,
          body \in ClassBodies :
         /\ upload_kind = "full" \/ k < 0 \/ (k = 1 /\ body # <<>>)
         /\ k < 0 => body = <<>>
         /\ \/ /\ k < 0
               /\ data = SectionsPayload(upload_kind, FALSE, <<>>)
            \/ data = SectionsPayload(upload_kind, TRUE, DocumentSection(k, body, FALSE, <<>>))
            \/ \E n \in 0..MaxSectionNodes :
                 \E depth \in [1..n -> 1..n] :
                     /\ IsPreOrder(depth, n)
                     /\ \E label \in [1..n -> SectionCategoryLabels \cup SectionNodeLabels] :
                            /\ \A i \in 1..n :
                                   label[i] \in IF depth[i] = 1 THEN SectionCategoryLabels
                                                ELSE SectionNodeLabels
                            /\ data = SectionsPayload(upload_kind, TRUE,
                                   DocumentSection(k, body, TRUE, Forest(depth, label, 1, n)))
    /\ all_questions = <<>>
    /\ report = None
    /\ rows = <<>>
    /\ PullIdle
    /\ fields = None
    /\ identifier = <<>>
    /\ parsed = None
    /\ node = None
    /\ yes_no_value = TRUE

NextSections == AnalyzeDocument

SpecSections == InitSections /\ [][NextSections]_vars

(***************************************************************************)
(* SpecQuestionnaire: a questionnaire of two categories is analysed and    *)
(* then exported (main.py, steps 4 and 5)                                  *)
(***************************************************************************)
\* greatest number of questions of a questionnaire
MaxQuestions == 2

\* the question texts, points, flags and answers of the questionnaires
QuestionSamples ==
    {q \in [text : {<<"Q">>, <<" ", "a", " ", "b", " ">>}, points : {<<"0">>, <<"3">>},
            is_ko : BOOLEAN, is_plausible : BOOLEAN, answered_no : BOOLEAN] :
        q.text # <<"Q">> => (q.points = <<"3">> /\ q.is_ko /\ q.answered_no)}

\* "Question | Points | IsKO | IsPlausible"
QuestionIdentifier(q) ==
    q.text \o <<"|">> \o q.points \o <<" ", "|">> \o (IF q.is_ko THEN true ELSE false)
           \o <<"|", " ">> \o (IF q.is_plausible THEN true ELSE false)

\* the node of a question, with a "Yes/No" child when it is answered no
QuestionNode(q) ==
    Node([document_class_identifier_by_organization |-> QuestionIdentifier(q)],
         IF q.answered_no THEN <<YesNoFalse>> ELSE <<>>)

\* the first split questions in a category named by its display name, the
\* others in a category named by its identifier
Questionnaire(questions, split) ==
    Payload(<<Node(Section, SubSeq(questions, 1, split)),
              Node(AgeCheck, SubSeq(questions, split + 1, Len(questions)))>>)

InitQuestionnaire ==
    /\ pc = "start"
    /\ \E m \in 0..MaxQuestions :
         \E sample \in [1..m -> QuestionSamples], split \in 0..m :
             data = Questionnaire([i \in 1..m |-> QuestionNode(sample[i])], split)
    /\ all_questions = <<>>
    /\ report = None
    /\ rows = <<>>
    /\ PullIdle
    /\ fields = None
    /\ identifier = <<>>
    /\ parsed = None
    /\ node = None
    /\ yes_no_value = TRUE

CreateCsvReport ==
    /\ pc = "done"
    /\ pc' = IF create_csv_report_raises(data) THEN "failed" ELSE "exported"
    /\ rows' = IF create_csv_report_raises(data) THEN <<>> ELSE create_csv_report(data)
    /\ UNCHANGED <<data, all_questions, report, fields,
                   identifier, parsed, node, yes_no_value, pull_vars>>

NextQuestionnaire == AnalyzeDocument \/ CreateCsvReport

SpecQuestionnaire == InitQuestionnaire /\ [][NextQuestionnaire]_vars

(***************************************************************************)
(* SpecCalls: several analyze_document calls run at once, their steps      *)
(* interleaved; calls[k] holds the local variables of call k               *)
(***************************************************************************)
\* number of calls running at once
MaxCalls == 2

\* the payloads of the calls
PayloadSamples ==
    {Payload(<<>>),
     Payload(<<Node(Section, <<Node(AgeCheck, <<YesNoFalse>>)>>)>>),
     Payload(<<Node(Section, <<IncomeCheck>>),
               Node(Bare, <<Node(AgeCheck, <<YesNoFalse>>), Short>>)>>),
     Payload(<<Node(AgeCheck, <<Node(IncomeCheck, <<YesNoFalse>>)>>), Section>>)}

\* the frame of a call of analyze_document(data) before its first statement
Frame(payload) ==
    [pc |-> "extract", data |-> payload, document_id |-> <<>>, filename |-> <<>>,
     assessment |-> <<>>, root_children |-> <<>>, all_questions |-> <<>>, category |-> 1,
     report |-> None]

\* lines 169-180: the basic information, the categories and an empty list
Extracted(frame) ==
    LET upload_data == Get(frame.data, "upload", <<>>)
        document == Get(frame.data, "document", <<>>)
    IN  [frame EXCEPT !.pc = "collect",
                      !.document_id = get_document_id(document),
                      !.filename = Get(upload_data, "document_id_by_organization", <<>>),
                      !.assessment = LStripChar(Get(document, "document_class", <<>>), "/"),
                      !.root_children = Get(document, "children", <<>>),
                      !.all_questions = <<>>,
                      !.category = 1]

\* all_questions.extend(questions) on a list that every call shares
Extend_shared(frames, k, questions) ==
    [j \in DOMAIN frames |-> [frames[j] EXCEPT !.all_questions = @ \o questions]]

\* all_questions.extend(questions) in call k
Extend(frames, k, questions) == [frames EXCEPT ![k].all_questions = @ \o questions]

\* lines 186-221: the report of the questions collected and of the categories
ReportOf(frame) ==
    LET questions == frame.all_questions
        number_of_plausible_checks_answered_no == count_plausible_checks_answered_no(questions)
        max_total_risk_points == Sum([i \in DOMAIN questions |-> Points(questions[i])])
        total_risk_score == calculate_total_risk_score(questions)
    IN  [document_id |-> frame.document_id,
         filename |-> frame.filename,
         assessment |-> frame.assessment,
         number_of_questions |-> Len(questions),
         number_of_ko_questions |-> Sum([i \in DOMAIN questions |-> IsKo(questions[i])]),
         number_of_plausible_checks |->
             Sum([i \in DOMAIN questions |-> IsPlausibleCheck(questions[i])]),
         number_of_questions_answered_no |-> count_questions_answered_no(questions),
         number_of_ko_questions_answered_no |-> count_ko_questions_answered_no(questions),
         number_of_plausible_checks_answered_no |-> number_of_plausible_checks_answered_no,
         is_plausible |-> (number_of_plausible_checks_answered_no = 0),
         max_total_risk_points |-> max_total_risk_points,
         total_risk_score |-> total_risk_score,
         risk_ratio |-> RiskRatio(total_risk_score, max_total_risk_points),
         categories |-> [i \in 1..Len(frame.root_children) |->
                            calculate_category_metrics(frame.root_children[i])]]

InitCalls ==
    /\ pc = "calls"
    /\ calls \in [1..MaxCalls -> {Frame(payload) : payload \in PayloadSamples}]
    /\ ScoreIdle
    /\ DeleteIdle
    /\ FetchIdle
    /\ NetIdle

\* call k reads its payload
Extract(k) ==
    /\ calls[k].pc = "extract"
    /\ calls' = [calls EXCEPT ![k] = Extracted(@)]
    /\ UNCHANGED <<pc, score_vars, delete_vars, fetch_vars, net_vars>>

\* call k runs one iteration of the loop of lines 182-183
CollectCategory(k) ==
    /\ calls[k].pc = "collect"
    /\ calls[k].category <= Len(calls[k].root_children)
    /\ LET children == Get(calls[k].root_children[calls[k].category], "children", <<>>)
       IN  calls' = IF collect_questions_raises(children)
                    THEN [calls EXCEPT ![k].pc = "raised"]
                    ELSE [Extend(calls, k, collect_questions(children))
                              EXCEPT ![k].category = @ + 1]
    /\ UNCHANGED <<pc, score_vars, delete_vars, fetch_vars, net_vars>>

\* call k leaves the loop, computes the metrics and returns
Return(k) ==
    /\ calls[k].pc = "collect"
    /\ calls[k].category > Len(calls[k].root_children)
    /\ calls' = [calls EXCEPT ![k].pc = "returned", ![k].report = ReportOf(calls[k])]
    /\ UNCHANGED <<pc, score_vars, delete_vars, fetch_vars, net_vars>>

NextCalls ==
    \/ \E k \in 1..MaxCalls : Extract(k)
    \/ \E k \in 1..MaxCalls : CollectCategory(k)
    \/ \E k \in 1..MaxCalls : Return(k)

SpecCalls == InitCalls /\ [][NextCalls]_vars

(***************************************************************************)
(* SpecDelete: delete_all_document_exports                                 *)
(* (src/api_showcase/pull_exporter/delete_exports.py) and its workers, one *)
(* asyncio task per listed document; a task runs without interruption from *)
(* one await of the network to the next                                    *)
(***************************************************************************)
\* greatest number of documents listed, and greatest concurrency
MaxDocuments == 2

\* an Optional value: << >> for None, <<v>> for the value v
Some(v) == <<v>>

NotAuthenticated ==
    <<"N", "o", "t", " ", "a", "u", "t", "h", "e", "n", "t", "i", "c", "a", "t", "e", "d">>

DetailNotAuthenticated ==
    <<"d", "e", "t", "a", "i", "l", ":", " ", "N", "o", "t", " ", "a", "u", "t", "h", "e",
      "n", "t", "i", "c", "a", "t", "e", "d">>

TokenExpired ==
    <<"T", "o", "k", "e", "n", " ", "e", "x", "p", "i", "r", "e", "d">>

CannotConnect ==
    <<"C", "a", "n", "n", "o", "t", " ", "c", "o", "n", "n", "e", "c", "t">>

\* f"Unexpected status {status}: {body}"
UnexpectedStatus(status, body) ==
    <<"U", "n", "e", "x", "p", "e", "c", "t", "e",
      "d", " ", "s", "t", "a", "t", "u", "s", " ">>
        \o StrOfInt(status) \o <<":", " ">> \o body

\* needle in s
IsSubstring(needle, s) ==
    \E i \in 0..(Len(s) - Len(needle)) : SubSeq(s, i + 1, i + Len(needle)) = needle

\* the outcomes of session.delete: a status and a body, or an
\* aiohttp.ClientError (no status)
Responses ==
    {[status |-> Some(204), body |-> <<>>],
     [status |-> Some(401), body |-> DetailNotAuthenticated],
     [status |-> Some(401), body |-> TokenExpired],
     [status |-> Some(403), body |-> NotAuthenticated],
     [status |-> <<>>, body |-> CannotConnect]}

\* the DeleteResult that delete_document_export returns for a response
DeleteResult(document_id, response) ==
    IF response.status = <<>>
    THEN [document_id |-> document_id, success |-> FALSE, status |-> <<>>,
          error |-> Some(response.body)]
    ELSE IF response.status[1] < 300
    THEN [document_id |-> document_id, success |-> TRUE, status |-> response.status,
          error |-> <<>>]
    ELSE [document_id |-> document_id, success |-> FALSE, status |-> response.status,
          error |-> Some(UnexpectedStatus(response.status[1], response.body))]

\* res.status in (401, 403) and 'Not authenticated' in (res.error or '')
NeedsAuthRetry(res) ==
    /\ res.status \in {Some(401), Some(403)}
    /\ IsSubstring(NotAuthenticated, IF res.error = <<>> THEN <<>> ELSE res.error[1])

\* the guards of lines 87-96 joined into one test of both flags at once
Refuses_both(confirmed, preview) == preview /\ ~confirmed

\* lines 87-96: a dry run, or no confirmation, returns before any deletion
Refuses(confirmed, preview) == preview \/ ~confirmed

\* a semaphore that never blocks
Locked_never(value) == FALSE

\* asyncio.Semaphore.locked()
Locked(value) == value = 0

\* the calls of get_token made so far
TokenCalls == {e \in network : e.call = "get_token"}

InitDelete ==
    /\ pc = "start"
    /\ confirm \in BOOLEAN
    /\ dry_run \in BOOLEAN
    /\ concurrency \in 0..MaxDocuments
    /\ access_token = 0
    /\ documents = <<>>
    /\ worker = <<>>
    /\ nonlocal_access_token_holder = <<>>
    /\ results = <<>>
    /\ NetIdle
    /\ calls = None
    /\ FetchIdle
    /\ ScoreIdle

\* lines 69-70
RejectConcurrency ==
    /\ pc = "start"
    /\ concurrency < 1
    /\ pc' = "raised"
    /\ UNCHANGED <<score_vars, calls, fetch_vars, delete_vars, net_vars>>

\* line 72: the first token, or the ClientError of get_token
GetToken ==
    /\ pc = "start"
    /\ concurrency >= 1
    /\ \E ok \in BOOLEAN :
           /\ network' = network \cup {[call |-> "get_token", number |-> 1, ok |-> ok, by |-> 0]}
           /\ pc' = IF ok THEN "list" ELSE "raised"
           /\ access_token' = IF ok THEN 1 ELSE access_token
    /\ UNCHANGED <<score_vars, calls, fetch_vars, confirm, dry_run, concurrency, documents, worker,
                   nonlocal_access_token_holder, results, semaphore>>

\* lines 76-124: the documents are listed; the call returns at once when
\* there is none, on a dry run and without confirmation; otherwise one
\* worker task is created for each document
ListDocuments ==
    /\ pc = "list"
    /\ \E total \in 0..MaxDocuments :
           /\ documents' = [i \in 1..total |-> i]
           /\ network' = network \cup {[call |-> "list_documents", token |-> access_token]}
           /\ IF total = 0 \/ Refuses(confirm, dry_run)
              THEN /\ pc' = "returned"
                   /\ UNCHANGED <<semaphore, worker, nonlocal_access_token_holder>>
              ELSE /\ pc' = "gather"
                   /\ semaphore' = concurrency
                   /\ worker' = [d \in 1..total |-> [pc |-> "acquire", res |-> None]]
                   /\ nonlocal_access_token_holder' = <<access_token>>
    /\ UNCHANGED <<score_vars, calls, fetch_vars, confirm, dry_run, concurrency, access_token,
                   results>>

\* lines 103-104: the worker of document d enters the semaphore and sends
\* its first delete request
Acquire(d) ==
    /\ pc = "gather"
    /\ worker[d].pc = "acquire"
    /\ ~Locked(semaphore)
    /\ semaphore' = semaphore - 1
    /\ worker' = [worker EXCEPT ![d].pc = "delete"]
    /\ network' = network \cup
           {[call |-> "delete", document_id |-> d, attempt |-> 1, token |-> access_token]}
    /\ UNCHANGED <<pc, score_vars, calls, fetch_vars, confirm, dry_run, concurrency, access_token,
                   documents, nonlocal_access_token_holder, results>>

\* the worker of document d records res and leaves the semaphore (lines 115-119)
Finish(d, res) ==
    /\ worker' = [worker EXCEPT ![d] = [pc |-> "done", res |-> res]]
    /\ results' = Append(results, res)
    /\ semaphore' = semaphore + 1

\* lines 104-109: the first request of document d is answered; the worker
\* asks for a new token or finishes
Respond(d) ==
    /\ pc = "gather"
    /\ worker[d].pc = "delete"
    /\ \E response \in Responses :
           LET res == DeleteResult(d, response)
           IN  /\ network' = network \cup
                      {[call |-> "response", document_id |-> d, attempt |-> 1,
                        response |-> response]}
               /\ IF NeedsAuthRetry(res)
                  THEN /\ worker' = [worker EXCEPT ![d] = [pc |-> "refresh", res |-> res]]
                       /\ UNCHANGED <<results, semaphore>>
                  ELSE Finish(d, res)
    /\ UNCHANGED <<pc, score_vars, calls, fetch_vars, confirm, dry_run, concurrency, access_token,
                   documents, nonlocal_access_token_holder>>

\* lines 109-113: get_token answers the worker of document d; with a new
\* token the holder is updated and the delete sent again, otherwise the
\* first result stands
Refresh(d) ==
    /\ pc = "gather"
    /\ worker[d].pc = "refresh"
    /\ \E ok \in BOOLEAN :
           LET number == Cardinality(TokenCalls) + 1
               call == [call |-> "get_token", number |-> number, ok |-> ok, by |-> d]
           IN  IF ok
               THEN /\ nonlocal_access_token_holder' = <<number>>
                    /\ worker' = [worker EXCEPT ![d].pc = "retry"]
                    /\ network' = network \cup
                           {call, [call |-> "delete", document_id |-> d, attempt |-> 2,
                                   token |-> number]}
                    /\ UNCHANGED <<results, semaphore>>
               ELSE /\ network' = network \cup {call}
                    /\ Finish(d, worker[d].res)
                    /\ UNCHANGED nonlocal_access_token_holder
    /\ UNCHANGED <<pc, score_vars, calls, fetch_vars, confirm, dry_run, concurrency, access_token,
                   documents>>

\* lines 111-119: the second request of document d is answered
RespondRetry(d) ==
    /\ pc = "gather"
    /\ worker[d].pc = "retry"
    /\ \E response \in Responses :
           /\ network' = network \cup
                  {[call |-> "response", document_id |-> d, attempt |-> 2,
                    response |-> response]}
           /\ Finish(d, DeleteResult(d, response))
    /\ UNCHANGED <<pc, score_vars, calls, fetch_vars, confirm, dry_run, concurrency, access_token,
                   documents, nonlocal_access_token_holder>>

\* lines 125-140: every task is done and the results are returned
ReturnResults ==
    /\ pc = "gather"
    /\ \A d \in DOMAIN worker : worker[d].pc = "done"
    /\ pc' = "returned"
    /\ UNCHANGED <<score_vars, calls, fetch_vars, delete_vars, net_vars>>

NextDelete ==
    \/ RejectConcurrency
    \/ GetToken
    \/ ListDocuments
    \/ \E d \in DOMAIN worker : Acquire(d)
    \/ \E d \in DOMAIN worker : Respond(d)
    \/ \E d \in DOMAIN worker : Refresh(d)
    \/ \E d \in DOMAIN worker : RespondRetry(d)
    \/ ReturnResults

SpecDelete == InitDelete /\ [][NextDelete]_vars

(***************************************************************************)
(* SpecFetch: get_documents_by_ids                                         *)
(* (src/api_showcase/pull_exporter/get_document_data.py) and the tasks of  *)
(* fetch_with_semaphore, one per requested document ID                     *)
(***************************************************************************)
\* the outcomes of get_document_by_id: the details of the document, or the
\* text of the exception it raised
Fetched(doc_id) ==
    {[status |-> "success", data |-> [document |-> [document_id |-> doc_id]]],
     [status |-> "error", error |-> CannotConnect]}

\* lines 151-157 keeping the successful results only
ResultsDict_successes(fetched) ==
    [doc_id \in {fetched[i][1] :
                   i \in {j \in DOMAIN fetched : fetched[j][2].status = "success"}} |->
        LET last == CHOOSE i \in DOMAIN fetched :
                        /\ fetched[i][1] = doc_id
                        /\ \A j \in DOMAIN fetched : fetched[j][1] = doc_id => j <= i
        IN  fetched[last][2]]

\* lines 151-157: the results, in the order of the requested IDs, entered
\* under their document ID; a later entry replaces an earlier one
ResultsDict(fetched) ==
    [doc_id \in {fetched[i][1] : i \in DOMAIN fetched} |->
        LET last == CHOOSE i \in DOMAIN fetched :
                        /\ fetched[i][1] = doc_id
                        /\ \A j \in DOMAIN fetched : fetched[j][1] = doc_id => j <= i
        IN  fetched[last][2]]

InitFetch ==
    /\ pc = "start"
    /\ \E total \in 0..MaxDocuments : document_ids \in [1..total -> 1..MaxDocuments]
    /\ max_concurrent \in 0..MaxDocuments
    /\ fetch_with_semaphore = <<>>
    /\ results_dict = <<>>
    /\ NetIdle
    /\ calls = None
    /\ DeleteIdle
    /\ ScoreIdle

\* lines 118-119
RejectEmpty ==
    /\ pc = "start"
    /\ document_ids = <<>>
    /\ pc' = "raised"
    /\ UNCHANGED <<score_vars, calls, delete_vars, fetch_vars, net_vars>>

\* lines 121-148: the semaphore and one task per requested ID
Gather ==
    /\ pc = "start"
    /\ document_ids # <<>>
    /\ pc' = "gather"
    /\ semaphore' = max_concurrent
    /\ fetch_with_semaphore' = [i \in DOMAIN document_ids |-> [pc |-> "acquire", result |-> None]]
    /\ UNCHANGED <<score_vars, calls, delete_vars, document_ids, max_concurrent, results_dict,
                   network>>

\* lines 127-129: task i enters the semaphore and sends its request
AcquireFetch(i) ==
    /\ pc = "gather"
    /\ fetch_with_semaphore[i].pc = "acquire"
    /\ ~Locked(semaphore)
    /\ semaphore' = semaphore - 1
    /\ fetch_with_semaphore' = [fetch_with_semaphore EXCEPT ![i].pc = "fetch"]
    /\ network' = network \cup {[call |-> "get", task |-> i, document_id |-> document_ids[i]]}
    /\ UNCHANGED <<pc, score_vars, calls, delete_vars, document_ids, max_concurrent,
                   results_dict>>

\* lines 129-142: get_document_by_id returns or raises; task i returns its
\* ID with the outcome and leaves the semaphore
FetchOne(i) ==
    /\ pc = "gather"
    /\ fetch_with_semaphore[i].pc = "fetch"
    /\ \E outcome \in Fetched(document_ids[i]) :
           /\ fetch_with_semaphore' =
                  [fetch_with_semaphore EXCEPT
                      ![i] = [pc |-> "done", result |-> <<document_ids[i], outcome>>]]
           /\ network' = network \cup
                  {[call |-> "got", task |-> i, ok |-> (outcome.status = "success")]}
    /\ semaphore' = semaphore + 1
    /\ UNCHANGED <<pc, score_vars, calls, delete_vars, document_ids, max_concurrent,
                   results_dict>>

\* lines 148-167: every task is done; the dictionary is built and returned
ReturnDict ==
    /\ pc = "gather"
    /\ \A i \in DOMAIN fetch_with_semaphore : fetch_with_semaphore[i].pc = "done"
    /\ pc' = "returned"
    /\ results_dict' =
           ResultsDict([i \in DOMAIN fetch_with_semaphore |-> fetch_with_semaphore[i].result])
    /\ UNCHANGED <<score_vars, calls, delete_vars, document_ids, max_concurrent,
                   fetch_with_semaphore, net_vars>>

NextFetch ==
    \/ RejectEmpty
    \/ Gather
    \/ \E i \in DOMAIN fetch_with_semaphore : AcquireFetch(i)
    \/ \E i \in DOMAIN fetch_with_semaphore : FetchOne(i)
    \/ ReturnDict

SpecFetch == InitFetch /\ [][NextFetch]_vars

(***************************************************************************)
(* SpecYesNo: the answer of one question node is resolved                  *)
(***************************************************************************)
\* an answer node whose value is "true" in another case
YesNoTrue == [document_class_display_name |-> YesNo, value |-> <<"T", "r", "u", "e">>]

\* an answer node without a value
YesNoEmpty == [document_class_display_name |-> YesNo]

\* a node whose display name differs from "Yes/No" only in case
LowerYesNo ==
    [document_class_display_name |-> <<"y", "e", "s", "/", "n", "o">>, value |-> false]

\* a node that is no answer node
Wrapper == [document_class_display_name |-> <<"W">>]

AnswerLabels == {YesNoFalse, YesNoTrue, YesNoEmpty, LowerYesNo, Wrapper}

InitYesNo ==
    /\ pc = "start"
    /\ \E n \in 0..MaxAnswerNodes :
         \E depth \in [1..n -> 1..n] :
             /\ IsPreOrder(depth, n)
             /\ \E label \in [1..n -> AnswerLabels] :
                    \E root \in {AgeCheck, Put(AgeCheck, "children", <<>>)} :
                        node = Node(root, Forest(depth, label, 1, n))
    /\ yes_no_value = TRUE
    /\ data = None
    /\ all_questions = <<>>
    /\ report = None
    /\ rows = <<>>
    /\ PullIdle
    /\ fields = None
    /\ identifier = <<>>
    /\ parsed = None

GetYesNoValue ==
    /\ pc = "start"
    /\ pc' = "done"
    /\ yes_no_value' = get_yes_no_value(node)
    /\ UNCHANGED <<data, all_questions, report, fields,
                   identifier, parsed, node, rows, pull_vars>>

NextYesNo == GetYesNoValue

SpecYesNo == InitYesNo /\ [][NextYesNo]_vars

(***************************************************************************)
(* Properties                                                              *)
(***************************************************************************)
\* the document has been analysed and the report returned
Analysed == pc = "done" /\ report # None /\ report # ValueError

\* the sum of w[i] over the indices i in S
RECURSIVE SumOver(_, _)
SumOver(S, w) ==
    IF S = {} THEN 0
    ELSE LET i == CHOOSE j \in S : TRUE
         IN  w[i] + SumOver(S \ {i}, w)

PointsOf(questions) == [i \in DOMAIN questions |-> questions[i].points]

\* the questions that are KO and answered no
KoAndNo(questions) ==
    {i \in DOMAIN questions : questions[i].is_ko /\ ~questions[i].yes_no_value}

\* C1: total_risk_score is the sum of points over exactly the collected
\* questions that are KO and answered no, and max_total_risk_points is the
\* sum of points over all collected questions.
C1_AggregationLaw ==
    Analysed =>
        /\ report.total_risk_score = SumOver(KoAndNo(all_questions), PointsOf(all_questions))
        /\ report.max_total_risk_points =
               SumOver(DOMAIN all_questions, PointsOf(all_questions))

\* a KO question answered no scores, and another question with points does not
C1_Witness ==
    /\ Analysed
    /\ \E i \in KoAndNo(all_questions) : all_questions[i].points > 0
    /\ \E i \in DOMAIN all_questions \ KoAndNo(all_questions) : all_questions[i].points > 0
    /\ report.total_risk_score > 0
    /\ report.total_risk_score < report.max_total_risk_points

\* the plausibility checks answered no
PlausibleAndNo(questions) ==
    {i \in DOMAIN questions : questions[i].is_plausible /\ ~questions[i].yes_no_value}

\* C2: is_plausible is true iff number_of_plausible_checks_answered_no is 0,
\* that is iff no collected question is a plausibility check answered no; a
\* KO question answered no that is no plausibility check does not matter.
C2_PlausibilityLaw ==
    Analysed =>
        /\ report.is_plausible <=> (report.number_of_plausible_checks_answered_no = 0)
        /\ report.is_plausible <=> (PlausibleAndNo(all_questions) = {})

\* a KO question that is no plausibility check is answered no, and the
\* document is plausible
C2_Witness ==
    /\ Analysed
    /\ \E i \in KoAndNo(all_questions) : ~all_questions[i].is_plausible
    /\ report.is_plausible

\* the document level and every category level of the report
Levels(r) == {r} \cup {r.categories[i] : i \in DOMAIN r.categories}

\* risk_ratio, in ten-thousandths, is exactly score / max_points
ExactRatio(m) ==
    IF m.max_total_risk_points # 0
    THEN m.risk_ratio * m.max_total_risk_points = 10000 * m.total_risk_score
    ELSE m.risk_ratio = 0

Abs(x) == IF x < 0 THEN 0 - x ELSE x

\* risk_ratio, in ten-thousandths, is a multiple of 0.0001 nearest to score / max_points
NearestRatio(m) ==
    IF m.max_total_risk_points # 0
    THEN 2 * Abs(m.risk_ratio * m.max_total_risk_points - 10000 * m.total_risk_score)
             <= m.max_total_risk_points
    ELSE m.risk_ratio = 0

\* C3 as stated: at document and at category level risk_ratio is
\* total_risk_score / max_total_risk_points when that is nonzero, else 0.
C3_ExactRatio == Analysed => \A m \in Levels(report) : ExactRatio(m)

\* C3 as amended: at document and at category level risk_ratio is
\* total_risk_score / max_total_risk_points rounded to 4 decimal places when
\* max_total_risk_points is nonzero, and exactly 0 otherwise.
C3_RoundedRatio == Analysed => \A m \in Levels(report) : NearestRatio(m)

\* a nonzero denominator whose quotient is no multiple of 0.0001
C3_Witness ==
    /\ Analysed
    /\ ~ExactRatio(report)
    /\ \E m \in Levels(report) : m.max_total_risk_points # 0 /\ ~ExactRatio(m)

\* the payload of the end-to-end example: one category holding Q1 with a
\* "Yes/No" child of value "false" and Q2 without a "Yes/No" child
IsExample(payload) ==
    /\ Len(RootChildren(payload)) = 1
    /\ HasKey(RootChildren(payload)[1], "children")
    /\ RootChildren(payload)[1].children =
           <<Put(AgeCheck, "children", <<YesNoFalse>>), IncomeCheck>>

\* C4: the end-to-end example yields max_total_risk_points 15,
\* total_risk_score 10, risk_ratio 0.6667, one question answered no, one KO
\* question answered no, no plausibility check answered no, is_plausible.
C4_EndToEndExample ==
    (Analysed /\ IsExample(data)) =>
        /\ report.max_total_risk_points = 15
        /\ report.total_risk_score = 10
        /\ report.risk_ratio = 6667
        /\ report.number_of_questions_answered_no = 1
        /\ report.number_of_ko_questions_answered_no = 1
        /\ report.number_of_plausible_checks_answered_no = 0
        /\ report.is_plausible

C4_Witness == Analysed /\ IsExample(data) /\ report.number_of_questions = 2

\* the children of a node, none when the key is absent
ChildrenOf(n) == IF "children" \in DOMAIN n THEN n["children"] ELSE <<>>

\* the positions of the immediate children of n whose display name is "Yes/No"
YesNoChildren(n) ==
    {i \in DOMAIN ChildrenOf(n) :
        /\ DisplayNameKey \in DOMAIN ChildrenOf(n)[i]
        /\ ChildrenOf(n)[i][DisplayNameKey] = <<"Y", "e", "s", "/", "N", "o">>}

\* the questions whose node has an immediate child named "Yes/No"
Answered(questions) == {i \in DOMAIN questions : YesNoChildren(questions[i].node) # {}}

\* C5: a question node with no immediate child named exactly "Yes/No" gets
\* yes_no_value = true, so it adds neither to total_risk_score nor to any
\* answered-no count, even when it is a KO or plausibility question.
C5_DefaultAnswer ==
    Analysed =>
        LET A == Answered(all_questions)
            no == {i \in A : ~all_questions[i].yes_no_value}
        IN  /\ \A i \in DOMAIN all_questions \ A : all_questions[i].yes_no_value
            /\ report.total_risk_score =
                   SumOver({i \in no : all_questions[i].is_ko}, PointsOf(all_questions))
            /\ report.number_of_questions_answered_no = Cardinality(no)
            /\ report.number_of_ko_questions_answered_no =
                   Cardinality({i \in no : all_questions[i].is_ko})
            /\ report.number_of_plausible_checks_answered_no =
                   Cardinality({i \in no : all_questions[i].is_plausible})

\* a KO question with points and a plausibility check without children,
\* neither with a "Yes/No" child: nothing is scored or counted as answered no
C5_Witness ==
    /\ Analysed
    /\ \E i, j \in DOMAIN all_questions \ Answered(all_questions) :
           /\ all_questions[i].is_ko /\ all_questions[i].points > 0
           /\ all_questions[j].is_plausible
           /\ ChildrenOf(all_questions[j].node) = <<>>
    /\ report.total_risk_score = 0
    /\ report.number_of_questions_answered_no = 0

\* the paths (child positions from the root list down) of the nodes of a forest
RECURSIVE PathsOf(_)
PathsOf(forest) ==
    UNION {{<<i>>} \cup {<<i>> \o path : path \in PathsOf(ChildrenOf(forest[i]))} :
           i \in DOMAIN forest}

RECURSIVE NodeAt(_, _)
NodeAt(forest, path) ==
    IF Len(path) = 1 THEN forest[path[1]]
    ELSE NodeAt(ChildrenOf(forest[path[1]]), Tail(path))

\* the paths of the nodes strictly below the top-level categories
BelowCategories(payload) == {path \in PathsOf(RootChildren(payload)) : Len(path) >= 2}

\* the identifier of n is present and contains a '|'
BearsQuestion(n) ==
    /\ IdentifierKey \in DOMAIN n
    /\ \E i \in DOMAIN n[IdentifierKey] : n[IdentifierKey][i] = "|"

\* the paths of the question-bearing nodes below the categories
QuestionPaths(payload) ==
    {path \in BelowCategories(payload) : BearsQuestion(NodeAt(RootChildren(payload), path))}

IsProperPrefix(p, q) == Len(p) < Len(q) /\ SubSeq(q, 1, Len(p)) = p

\* C7: a question-bearing node with question-bearing descendants contributes
\* its own question and every descendant question: no question-bearing node
\* of a category subtree is skipped, whatever its ancestors emitted.
C7_NestedScoring ==
    Analysed =>
        \A path \in QuestionPaths(data) :
            LET n == NodeAt(RootChildren(data), path)
            IN  Cardinality({i \in DOMAIN all_questions : all_questions[i].node = n})
                    >= Cardinality({other \in QuestionPaths(data) :
                                       NodeAt(RootChildren(data), other) = n})

\* a question-bearing node with a question-bearing child, both collected
C7_Witness ==
    /\ Analysed
    /\ \E p, q \in QuestionPaths(data) : IsProperPrefix(p, q) /\ Len(q) = Len(p) + 1
    /\ Len(all_questions) >= 2

\* C8: collect_questions emits exactly one question for each node whose
\* identifier is present and contains a '|' and none for any other node, so
\* number_of_questions is the number of such nodes below the categories.
C8_OneQuestionPerNode ==
    Analysed =>
        /\ \A i \in DOMAIN all_questions : BearsQuestion(all_questions[i].node)
        /\ \A i \in DOMAIN all_questions :
               Cardinality({j \in DOMAIN all_questions :
                               all_questions[j].node = all_questions[i].node})
                   = Cardinality({path \in QuestionPaths(data) :
                                     NodeAt(RootChildren(data), path) = all_questions[i].node})
        /\ Len(all_questions) = Cardinality(QuestionPaths(data))
        /\ report.number_of_questions = Cardinality(QuestionPaths(data))

\* a node with a '|' in its identifier, one with an identifier without, one
\* without identifier, and a top-level category that bears an identifier
C8_Witness ==
    /\ Analysed
    /\ report.number_of_questions >= 1
    /\ \E path \in BelowCategories(data) :
           LET n == NodeAt(RootChildren(data), path)
           IN  IdentifierKey \in DOMAIN n /\ ~BearsQuestion(n)
    /\ \E path \in BelowCategories(data) :
           IdentifierKey \notin DOMAIN NodeAt(RootChildren(data), path)
    /\ \E i \in DOMAIN RootChildren(data) : BearsQuestion(RootChildren(data)[i])

\* the forest with the identifier of the node at path removed
RECURSIVE WithoutIdentifierAt(_, _)
WithoutIdentifierAt(forest, path) ==
    [forest EXCEPT ![path[1]] =
        IF Len(path) = 1 THEN Del(@, IdentifierKey)
        ELSE Put(@, "children", WithoutIdentifierAt(@["children"], Tail(path)))]

\* the identifier of n is present and is empty or has fewer than 3 pipes
HasNoScoringIdentifier(n) ==
    /\ IdentifierKey \in DOMAIN n
    /\ Cardinality({i \in DOMAIN n[IdentifierKey] : n[IdentifierKey][i] = "|"}) < 3

SameLetter(a, b) ==
    a = b \/ \E k \in DOMAIN UpperChars : {a, b} = {UpperChars[k], LowerChars[k]}

EqualsIgnoringCase(s, t) == Len(s) = Len(t) /\ \A i \in DOMAIN s : SameLetter(s[i], t[i])

\* the least element of a nonempty set of positions
First(S) == CHOOSE i \in S : \A j \in S : i <= j

\* C6: the answer is decided by the first immediate child, in child order,
\* whose display name is exactly "Yes/No": it is true iff that child's value
\* equals "true" ignoring case; later "Yes/No" siblings, names differing in
\* case and deeper "Yes/No" nodes do not affect it.
C6_FirstYesNoChild ==
    (pc = "done" /\ node # None) =>
        IF YesNoChildren(node) = {} THEN yes_no_value
        ELSE LET child == ChildrenOf(node)[First(YesNoChildren(node))]
             IN  yes_no_value <=>
                     /\ "value" \in DOMAIN child
                     /\ EqualsIgnoringCase(child["value"], <<"t", "r", "u", "e">>)

\* the first child differs from "Yes/No" in case only and holds "false", the
\* second is the first "Yes/No" child and holds "True", a later "Yes/No"
\* sibling holds another answer
C6_Witness ==
    /\ pc = "done" /\ node # None
    /\ YesNoChildren(node) # {}
    /\ First(YesNoChildren(node)) = 2
    /\ ChildrenOf(node)[1] = LowerYesNo
    /\ ChildrenOf(node)[2] = YesNoTrue
    /\ \E i \in YesNoChildren(node) : i > 2 /\ ChildrenOf(node)[i] # YesNoTrue
    /\ yes_no_value

\* C10: parsing "Q | <points> | <is_ko> | <is_plausible>", the booleans
\* rendered as True/False, returns exactly (points, is_ko, is_plausible).
C10_ParseRoundTrip == (pc = "done" /\ fields # None) => parsed = fields

\* a round trip of points with several digits and two different flags
C10_Witness ==
    /\ pc = "done" /\ fields # None
    /\ fields.points >= 100
    /\ fields.is_ko /\ ~fields.is_plausible
    /\ parsed = fields

\* the positions of the pipes of s
PipePositions(s) == {i \in DOMAIN s : s[i] = "|"}

ZeroFields == [points |-> 0, is_ko |-> FALSE, is_plausible |-> FALSE]

\* C11: parse_identifier_fields never raises, whatever the string (empty,
\* or with 3 or more pipes around garbage), and an input that is empty or
\* has fewer than 3 pipes yields points 0, is_ko false, is_plausible false.
C11_NeverRaises ==
    pc = "done" =>
        /\ parsed # ValueError
        /\ Cardinality(PipePositions(identifier)) < 3 => parsed = ZeroFields

\* the k-th field of s: the text between the pipes number k - 1 and k
FieldOf(s, k) ==
    LET pipes == PipePositions(s)
        before == {i \in pipes : Cardinality({j \in pipes : j <= i}) = k - 1}
        after == {i \in pipes : Cardinality({j \in pipes : j <= i}) = k}
        lo == IF before = {} THEN 1 ELSE (CHOOSE i \in before : TRUE) + 1
        hi == IF after = {} THEN Len(s) ELSE (CHOOSE i \in after : TRUE) - 1
    IN  SubSeq(s, lo, hi)

\* s without the blanks before its first and after its last other character
Trimmed(s) ==
    LET solid == {i \in DOMAIN s : s[i] \notin {" ", "\t", "\n", "\r"}}
    IN  IF solid = {} THEN <<>>
        ELSE SubSeq(s, CHOOSE i \in solid : \A j \in solid : i <= j,
                       CHOOSE i \in solid : \A j \in solid : j <= i)

DigitValue(c) == CHOOSE v \in 0..9 : DecimalChars[v + 1] = c

RECURSIVE Power10(_)
Power10(n) == IF n = 0 THEN 1 ELSE 10 * Power10(n - 1)

\* the number a field stands for: its value when it is one or more decimal
\* digits, 0 when it is anything else
PointsOfField(s) ==
    IF s # <<>> /\ \A i \in DOMAIN s : \E v \in 0..9 : DecimalChars[v + 1] = s[i]
    THEN SumOver(DOMAIN s, [i \in DOMAIN s |-> DigitValue(s[i]) * Power10(Len(s) - i)])
    ELSE 0

\* C12: with 3 or more pipes every field is trimmed before it is read;
\* points is the value of the second field when that is a non-negative
\* integer and 0 on any parse failure; is_ko and is_plausible are true iff
\* the third and the fourth field equal "true" ignoring case.
C12_FieldRules ==
    (pc = "done" /\ Cardinality(PipePositions(identifier)) >= 3) =>
        parsed =
            [points |-> PointsOfField(Trimmed(FieldOf(identifier, 2))),
             is_ko |-> EqualsIgnoringCase(Trimmed(FieldOf(identifier, 3)), <<"t", "r", "u", "e">>),
             is_plausible |->
                 EqualsIgnoringCase(Trimmed(FieldOf(identifier, 4)), <<"t", "r", "u", "e">>)]

\* the payload with the identifier of every top-level node removed
WithoutTopIdentifiers(payload) ==
    [payload EXCEPT !["document"]["children"] = [i \in DOMAIN @ |-> Del(@[i], IdentifierKey)]]

\* the counts and point totals of a report
ScoreFields ==
    {"number_of_questions", "number_of_ko_questions", "number_of_plausible_checks",
     "number_of_questions_answered_no", "number_of_ko_questions_answered_no",
     "number_of_plausible_checks_answered_no", "is_plausible", "max_total_risk_points",
     "total_risk_score", "risk_ratio"}

\* C13: questions are collected only from the children, and their
\* descendants, of each top-level node: a top-level node is never emitted as
\* a question and adds to no count or point total, even when its own
\* identifier is a well-formed scoring string.
C13_TopLevelNotScored ==
    Analysed =>
        /\ Len(all_questions) = Cardinality(QuestionPaths(data))
        /\ \A i \in DOMAIN all_questions :
               \E path \in QuestionPaths(data) :
                   all_questions[i].node = NodeAt(RootChildren(data), path)
        /\ LET stripped == analyze_document(WithoutTopIdentifiers(data))
           IN  \A f \in ScoreFields : report[f] = stripped[f]

\* a top-level node with a well-formed KO identifier and a "Yes/No" child of
\* value "false", above a question: one question, nothing scored
C13_Witness ==
    /\ Analysed
    /\ \E i \in DOMAIN RootChildren(data) :
           LET top == RootChildren(data)[i]
           IN  /\ BearsQuestion(top)
               /\ Cardinality(PipePositions(top[IdentifierKey])) = 3
               /\ YesNoChildren(top) # {}
               /\ Len(ChildrenOf(top)) = 2
    /\ report.number_of_questions = 1
    /\ report.total_risk_score = 0
    /\ report.number_of_questions_answered_no = 0

\* the number of question-bearing nodes below the category at position i
QuestionsBelow(payload, i) == Cardinality({path \in QuestionPaths(payload) : path[1] = i})

\* the questions of all_questions that come from below the category at position i
QuestionsOfCategory(payload, questions, i) ==
    LET skipped == SumOver(1..(i - 1), [j \in 1..(i - 1) |-> QuestionsBelow(payload, j)])
    IN  SubSeq(questions, skipped + 1, skipped + QuestionsBelow(payload, i))

\* C14: categories has one entry per top-level node, in the same order, and
\* the point totals of each entry come from the questions collected in that
\* category's own subtree only.
C14_CategoryMetrics ==
    Analysed =>
        /\ Len(report.categories) = Len(RootChildren(data))
        /\ \A i \in DOMAIN report.categories :
               LET own == QuestionsOfCategory(data, all_questions, i)
               IN  /\ \A k \in DOMAIN own :
                          \E path \in QuestionPaths(data) :
                              path[1] = i /\ own[k].node = NodeAt(RootChildren(data), path)
                   /\ report.categories[i].max_total_risk_points =
                          SumOver(DOMAIN own, PointsOf(own))
                   /\ report.categories[i].total_risk_score =
                          SumOver(KoAndNo(own), PointsOf(own))

\* two categories, each with a question of its own, with different point totals
C14_Witness ==
    /\ Analysed
    /\ Len(report.categories) = 2
    /\ report.categories[1].max_total_risk_points > 0
    /\ report.categories[2].max_total_risk_points > report.categories[1].max_total_risk_points
    /\ report.max_total_risk_points =
           report.categories[1].max_total_risk_points + report.categories[2].max_total_risk_points

\* C15: category_name is the category node's identifier if the node has one,
\* else its display name if it has one, else the literal "Unknown"; the
\* display name is used only when the identifier is not present.
C15_CategoryName ==
    Analysed =>
        \A i \in DOMAIN report.categories :
            LET category == RootChildren(data)[i]
                name == report.categories[i].category_name
            IN  IF IdentifierKey \in DOMAIN category THEN name = category[IdentifierKey]
                ELSE IF DisplayNameKey \in DOMAIN category THEN name = category[DisplayNameKey]
                ELSE name = <<"U", "n", "k", "n", "o", "w", "n">>

\* three categories: one with an empty identifier and a display name, one
\* with a display name only, one with neither
C15_Witness ==
    /\ Analysed
    /\ Len(report.categories) = 3
    /\ IdentifierKey \in DOMAIN RootChildren(data)[1]
    /\ DisplayNameKey \in DOMAIN RootChildren(data)[1]
    /\ report.categories[1].category_name = <<>>
    /\ report.categories[2].category_name = <<"S">>
    /\ report.categories[3].category_name = <<"U", "n", "k", "n", "o", "w", "n">>

\* the document_class of a payload that has one
HasDocumentClass(payload) ==
    /\ "document" \in DOMAIN payload
    /\ "document_class" \in DOMAIN payload["document"]

\* the number of '/' characters before the first character of s that is none
LeadingSlashes(s) == Cardinality({i \in DOMAIN s : \A j \in 1..i : s[j] = "/"})

\* C16 as stated: assessment is document_class with at most one leading '/'
\* removed, the rest kept unchanged.
C16_SingleLeadingSlash ==
    (Analysed /\ HasDocumentClass(data)) =>
        LET class == data["document"]["document_class"]
        IN  report.assessment =
                IF LeadingSlashes(class) > 0 THEN SubSeq(class, 2, Len(class)) ELSE class

\* C16, amended: assessment is document_class with every leading '/' removed;
\* the rest of the string, later slashes included, is kept unchanged, and a
\* class without a leading slash is returned as is.
C16_AllLeadingSlashes ==
    (Analysed /\ HasDocumentClass(data)) =>
        LET class == data["document"]["document_class"]
        IN  report.assessment = SubSeq(class, LeadingSlashes(class) + 1, Len(class))

\* a class of two leading slashes and a slash further on
C16_Witness ==
    /\ Analysed
    /\ HasDocumentClass(data)
    /\ LeadingSlashes(data["document"]["document_class"]) = 2
    /\ report.assessment = <<"R", "/", "k">>

\* every count and point total of r is 0, its ratio 0, and it is plausible
AllZero(r) ==
    /\ r.number_of_questions = 0
    /\ r.number_of_ko_questions = 0
    /\ r.number_of_plausible_checks = 0
    /\ r.number_of_questions_answered_no = 0
    /\ r.number_of_ko_questions_answered_no = 0
    /\ r.number_of_plausible_checks_answered_no = 0
    /\ r.max_total_risk_points = 0
    /\ r.total_risk_score = 0
    /\ r.risk_ratio = 0
    /\ r.is_plausible = TRUE

\* C17: analyze_document does not raise when the payload lacks the upload
\* section, the document section, or both: filename is empty without an
\* upload section; without a document section document_id and assessment
\* are empty, categories is empty, every count and point total is 0,
\* risk_ratio is 0 and is_plausible is true.
C17_MissingSections ==
    (pc = "done" /\ ("upload" \notin DOMAIN data \/ "document" \notin DOMAIN data)) =>
        /\ report # ValueError
        /\ "upload" \notin DOMAIN data => report.filename = <<>>
        /\ "document" \notin DOMAIN data =>
               /\ report.document_id = <<>>
               /\ report.assessment = <<>>
               /\ report.categories = <<>>
               /\ AllZero(report)

\* the payload with neither section has been analysed
C17_Witness ==
    /\ pc = "done"
    /\ DOMAIN data = {}
    /\ report # ValueError
    /\ report.document_id = <<>>
    /\ report.is_plausible = TRUE

\* the paths of the nodes of the document whose children are empty or absent
ChildlessPaths(payload) ==
    {path \in PathsOf(RootChildren(payload)) :
        ChildrenOf(NodeAt(RootChildren(payload), path)) = <<>>}

\* C18: empty or absent children raise no exception at any level: nothing
\* is collected below a document, category or nested node, question-bearing
\* or not, whose children are empty or absent, and a document or category
\* with no questions has all aggregates 0 and risk_ratio 0.
C18_NoChildren ==
    pc = "done" =>
        /\ report # ValueError
        /\ RootChildren(data) = <<>> => all_questions = <<>> /\ report.categories = <<>>
        /\ all_questions = <<>> => AllZero(report)
        /\ \A i \in DOMAIN all_questions :
               \A path \in ChildlessPaths(data) :
                   all_questions[i].node = NodeAt(RootChildren(data), path) =>
                       /\ all_questions[i].yes_no_value = TRUE
                       /\ \A q \in QuestionPaths(data) : ~IsProperPrefix(path, q)
        /\ \A i \in DOMAIN report.categories :
               (\A q \in QuestionPaths(data) : q[1] # i) =>
                   /\ report.categories[i].max_total_risk_points = 0
                   /\ report.categories[i].total_risk_score = 0
                   /\ report.categories[i].risk_ratio = 0

\* a category with an empty children list beside a category whose only
\* question has an empty children list
C18_Witness ==
    /\ pc = "done"
    /\ report # ValueError
    /\ Len(report.categories) = 2
    /\ "children" \in DOMAIN RootChildren(data)[1]
    /\ ChildrenOf(RootChildren(data)[1]) = <<>>
    /\ report.categories[1].risk_ratio = 0
    /\ Len(all_questions) = 1
    /\ "children" \in DOMAIN all_questions[1].node
    /\ ChildrenOf(all_questions[1].node) = <<>>

\* C19: each count of the report is the number of collected questions in
\* its defining set: answered no; KO and answered no; plausibility check and
\* answered no; KO; plausibility check. A question that is both KO and a
\* plausibility check counts in both families, and so does a question of
\* 0 points.
C19_CountsAreCardinalities ==
    Analysed =>
        LET Q == DOMAIN all_questions
            no(i) == ~all_questions[i].yes_no_value
            ko(i) == all_questions[i].is_ko
            plausible(i) == all_questions[i].is_plausible
        IN  /\ report.number_of_questions = Cardinality(Q)
            /\ report.number_of_questions_answered_no = Cardinality({i \in Q : no(i)})
            /\ report.number_of_ko_questions_answered_no =
                   Cardinality({i \in Q : ko(i) /\ no(i)})
            /\ report.number_of_plausible_checks_answered_no =
                   Cardinality({i \in Q : plausible(i) /\ no(i)})
            /\ report.number_of_ko_questions = Cardinality({i \in Q : ko(i)})
            /\ report.number_of_plausible_checks = Cardinality({i \in Q : plausible(i)})

\* a question of 0 points that is both KO and a plausibility check, answered
\* no, beside a KO question answered yes
C19_Witness ==
    /\ Analysed
    /\ Len(all_questions) = 2
    /\ all_questions[1].points = 0
    /\ all_questions[1].is_ko /\ all_questions[1].is_plausible
    /\ ~all_questions[1].yes_no_value
    /\ all_questions[2].is_ko /\ all_questions[2].yes_no_value
    /\ report.number_of_ko_questions = 2
    /\ report.number_of_ko_questions_answered_no = 1
    /\ report.number_of_plausible_checks_answered_no = 1

\* C20: the export has one row per collected question, in order; in each
\* row potential_risk_points is the question's points, actual_risk_points
\* its points if it is KO and answered no and 0 otherwise, answer is "Yes"
\* iff yes_no_value, ko_question and plausible_check are "Yes" iff the flag
\* is set, and question is the trimmed identifier text before the first '|'.
C20_CsvRows ==
    pc = "exported" =>
        /\ Len(rows) = Len(all_questions)
        /\ Len(rows) = Cardinality(QuestionPaths(data))
        /\ \A i \in DOMAIN rows :
               LET q == all_questions[i]
               IN  /\ rows[i].potential_risk_points = q.points
                   /\ rows[i].actual_risk_points =
                          (IF q.is_ko /\ ~q.yes_no_value THEN q.points ELSE 0)
                   /\ rows[i].answer \in {<<"Y", "e", "s">>, <<"N", "o">>}
                   /\ rows[i].answer = <<"Y", "e", "s">> <=> q.yes_no_value
                   /\ rows[i].ko_question \in {<<"Y", "e", "s">>, <<"N", "o">>}
                   /\ rows[i].ko_question = <<"Y", "e", "s">> <=> q.is_ko
                   /\ rows[i].plausible_check \in {<<"Y", "e", "s">>, <<"N", "o">>}
                   /\ rows[i].plausible_check = <<"Y", "e", "s">> <=> q.is_plausible
                   /\ rows[i].question = Trimmed(FieldOf(q.identifier, 1))

\* two rows in two categories: a plausibility check of points answered no
\* that scores nothing, and a KO question with a padded text that scores
C20_Witness ==
    /\ pc = "exported"
    /\ Len(rows) = 2
    /\ rows[1].category # rows[2].category
    /\ rows[1].potential_risk_points = 3
    /\ rows[1].actual_risk_points = 0
    /\ rows[1].answer = <<"N", "o">>
    /\ rows[1].plausible_check = <<"Y", "e", "s">>
    /\ rows[2].question = <<"a", " ", "b">>
    /\ rows[2].actual_risk_points = 3
    /\ rows[2].ko_question = <<"Y", "e", "s">>

\* path p comes before path q in depth-first pre-order: p is an ancestor of
\* q, or p branches off to an earlier sibling where the two part
ComesBefore(p, q) ==
    \/ IsProperPrefix(p, q)
    \/ \E k \in 1..Len(p) :
           /\ k <= Len(q)
           /\ SubSeq(p, 1, k - 1) = SubSeq(q, 1, k - 1)
           /\ p[k] < q[k]

\* the question-bearing path with exactly rank - 1 such paths before it
QuestionPathAt(payload, rank) ==
    CHOOSE p \in QuestionPaths(payload) :
        Cardinality({q \in QuestionPaths(payload) : ComesBefore(q, p)}) = rank - 1

\* C21: the collected questions are the question-bearing nodes in
\* depth-first pre-order: a node's question precedes those of its
\* descendants, the questions of an earlier sibling's subtree precede those
\* of a later sibling, and the categories follow each other in order.
C21_PreOrder ==
    Analysed =>
        /\ Len(all_questions) = Cardinality(QuestionPaths(data))
        /\ \A i \in DOMAIN all_questions :
               all_questions[i].node = NodeAt(RootChildren(data), QuestionPathAt(data, i))

\* a question above a different question, followed by a third in a later
\* sibling or category
C21_Witness ==
    /\ Analysed
    /\ Len(all_questions) = 3
    /\ IsProperPrefix(QuestionPathAt(data, 1), QuestionPathAt(data, 2))
    /\ ~IsProperPrefix(QuestionPathAt(data, 1), QuestionPathAt(data, 3))
    /\ all_questions[1].identifier # all_questions[2].identifier
    /\ all_questions[2].identifier # all_questions[3].identifier

\* C22: analyses that run at once, their steps interleaved in any order, do
\* not affect each other: each call returns the report it returns when it
\* runs alone on its payload.
C22_IndependentCalls ==
    \A k \in DOMAIN calls :
        calls[k].pc = "returned" => calls[k].report = analyze_document(calls[k].data)

\* a call has returned its report of three questions while another call,
\* on another payload, is between two categories
C22_Witness ==
    \E j, k \in DOMAIN calls :
        /\ calls[j].pc = "returned"
        /\ calls[j].report.number_of_questions = 3
        /\ calls[k].pc = "collect"
        /\ calls[k].category = 2
        /\ calls[k].data # calls[j].data
        /\ Len(calls[k].all_questions) = 1

\* C23: deletions happen only with confirm set and dry_run not set: on a
\* dry run, whatever confirm is, and without confirmation, no delete
\* request is sent for any listed document and the result list is empty.
C23_NoDeletionUnlessConfirmed ==
    (dry_run \/ ~confirm) =>
        /\ \A e \in network : e.call # "delete"
        /\ pc = "returned" => results = <<>>

\* a confirmed dry run over two documents has returned
C23_Witness ==
    /\ pc = "returned"
    /\ dry_run
    /\ confirm
    /\ Len(documents) = 2
    /\ \E e \in network : e.call = "list_documents"
    /\ results = <<>>

\* the delete requests, first attempts and retries, not yet answered
Unanswered ==
    {e \in network :
        /\ e.call = "delete"
        /\ \A r \in network :
               ~(r.call = "response" /\ r.document_id = e.document_id /\ r.attempt = e.attempt)}

\* C24: at every moment at most concurrency delete requests, first attempts
\* and retries together, are in flight, and a concurrency below 1 is
\* rejected with an error before any token or network call.
C24_AtMostConcurrency ==
    /\ Cardinality(Unanswered) <= concurrency
    /\ concurrency < 1 => network = {} /\ pc \in {"start", "raised"}

\* with concurrency 1 a retry is in flight while the other document waits
C24_Witness ==
    /\ concurrency = 1
    /\ Len(documents) = 2
    /\ \E e \in Unanswered : e.attempt = 2
    /\ Cardinality(Unanswered) = 1
    /\ \E d \in DOMAIN worker : \A e \in network : e.call = "delete" => e.document_id # d

\* the answer to the given attempt of document d
ResponseTo(d, attempt) ==
    (CHOOSE r \in network : r.call = "response" /\ r.document_id = d /\ r.attempt = attempt)
        .response

\* the results recorded for document d
Recorded(d) == {i \in DOMAIN results : results[i].document_id = d}

\* the recorded result of document d is that of the given attempt
RecordedFrom(d, attempt) ==
    \A i \in Recorded(d) :
        /\ results[i].status = ResponseTo(d, attempt).status
        /\ results[i].success = (ResponseTo(d, attempt).status \in {Some(204)})

\* C25: a delete answered 401 or 403 is followed by a token refresh and one
\* retry: no document is attempted more than twice, the recorded result is
\* that of the retry, and when the refresh fails the first failure is
\* recorded and the other workers go on.
C25_RetryOnceAfterRefresh ==
    (pc = "returned" /\ worker # <<>>) =>
        \A d \in DOMAIN worker :
            LET attempts == {e \in network : e.call = "delete" /\ e.document_id = d}
                refreshes == {e \in network : e.call = "get_token" /\ e.by = d}
            IN  /\ Cardinality(attempts) <= 2
                /\ Cardinality(Recorded(d)) = 1
                /\ IF ResponseTo(d, 1).status \in {Some(401), Some(403)}
                   THEN /\ Cardinality(refreshes) = 1
                        /\ \A e \in refreshes :
                               IF e.ok
                               THEN Cardinality(attempts) = 2 /\ RecordedFrom(d, 2)
                               ELSE Cardinality(attempts) = 1 /\ RecordedFrom(d, 1)
                   ELSE Cardinality(attempts) = 1 /\ RecordedFrom(d, 1)

\* C26: once a worker has refreshed the token, every first delete request
\* that another worker sends afterwards carries the refreshed token of the
\* token holder, not the original one.
C26_RefreshedTokenThreaded ==
    [][\A e \in network' \ network :
           (/\ e.call = "delete"
            /\ e.attempt = 1
            /\ \E t \in network : t.call = "get_token" /\ t.ok /\ t.by \notin {0, e.document_id})
               => e.token = nonlocal_access_token_holder[1]]_vars

\* the requests of get_documents_by_ids not yet answered
UnansweredGets ==
    {e \in network :
        /\ e.call = "get"
        /\ \A r \in network : ~(r.call = "got" /\ r.task = e.task)}

\* the last task that fetched document doc_id succeeded
LastFetchSucceeded(doc_id) ==
    \E r \in network :
        /\ r.call = "got"
        /\ r.ok
        /\ document_ids[r.task] = doc_id
        /\ \A i \in DOMAIN document_ids : document_ids[i] = doc_id => i <= r.task

\* C27: the dictionary returned has exactly one entry per distinct
\* requested ID, a success with data or an error with its text; a failed
\* fetch is recorded under its own ID only and every other document is
\* fetched and recorded; at most max_concurrent fetches are in flight.
C27_OneEntryPerDocument ==
    /\ Cardinality(UnansweredGets) <= max_concurrent
    /\ pc = "returned" =>
           /\ DOMAIN results_dict = {document_ids[i] : i \in DOMAIN document_ids}
           /\ \A i \in DOMAIN document_ids : \E e \in network : e.call = "got" /\ e.task = i
           /\ \A doc_id \in DOMAIN results_dict :
                  IF LastFetchSucceeded(doc_id)
                  THEN /\ DOMAIN results_dict[doc_id] = {"status", "data"}
                       /\ results_dict[doc_id].status = "success"
                       /\ results_dict[doc_id].data.document.document_id = doc_id
                  ELSE /\ DOMAIN results_dict[doc_id] = {"status", "error"}
                       /\ results_dict[doc_id].status = "error"

\* two documents fetched one at a time: the first failed, the second is recorded
C27_Witness ==
    /\ pc = "returned"
    /\ max_concurrent = 1
    /\ document_ids = <<1, 2>>
    /\ results_dict[1].status = "error"
    /\ results_dict[2].status = "success"

\* the values of one key over the entries of categories
CategoryValues(key) == [i \in DOMAIN report.categories |-> report.categories[i][key]]

\* C28: in every report the document's max_total_risk_points is the sum of
\* max_total_risk_points over the entries of categories, and the document's
\* total_risk_score is the sum of their total_risk_score.
C28_AggregatesAgree ==
    Analysed =>
        /\ report.max_total_risk_points =
               SumOver(DOMAIN report.categories, CategoryValues("max_total_risk_points"))
        /\ report.total_risk_score =
               SumOver(DOMAIN report.categories, CategoryValues("total_risk_score"))

\* two categories that both score
C28_Witness ==
    /\ Analysed
    /\ Len(report.categories) = 2
    /\ report.categories[1].total_risk_score > 0
    /\ report.categories[2].total_risk_score > 0
    /\ report.total_risk_score =
           report.categories[1].total_risk_score + report.categories[2].total_risk_score

\* the score lies between 0 and the maximum and the ratio between 0 and 1
\* (in ten-thousandths)
InRange(metrics) ==
    /\ 0 <= metrics.total_risk_score
    /\ metrics.total_risk_score <= metrics.max_total_risk_points
    /\ 0 <= metrics.risk_ratio
    /\ metrics.risk_ratio <= 10000

\* C29: in every report, for the document and for every category,
\* 0 <= total_risk_score <= max_total_risk_points and 0 <= risk_ratio <= 1;
\* the KO questions answered no are at most the questions answered no, which
\* are at most the questions; the KO questions answered no are at most the
\* KO questions; the plausibility checks answered no are at most the
\* plausibility checks.
C29_Ranges ==
    Analysed =>
        /\ InRange(report)
        /\ \A i \in DOMAIN report.categories : InRange(report.categories[i])
        /\ report.number_of_ko_questions_answered_no <= report.number_of_questions_answered_no
        /\ report.number_of_questions_answered_no <= report.number_of_questions
        /\ report.number_of_ko_questions_answered_no <= report.number_of_ko_questions
        /\ report.number_of_plausible_checks_answered_no <= report.number_of_plausible_checks

\* every bound met: a KO question of no points answered no in a category of
\* ratio 0, a KO question of 3 points answered no in a category of ratio 1
C29_Witness ==
    /\ Analysed
    /\ Len(all_questions) = 2
    /\ all_questions[1].points = 0
    /\ report.categories[1].max_total_risk_points = 0
    /\ report.categories[1].risk_ratio = 0
    /\ report.categories[2].total_risk_score = 3
    /\ report.categories[2].risk_ratio = 10000
    /\ report.total_risk_score = report.max_total_risk_points
    /\ report.risk_ratio = 10000
    /\ report.number_of_ko_questions_answered_no = 2
    /\ report.number_of_ko_questions = 2
    /\ report.number_of_questions = 2

\* the values of one column over the rows
Column(key) == [i \in DOMAIN rows |-> rows[i][key]]

\* C30: the export of a payload has number_of_questions rows, row i for the
\* i-th collected question; its potential_risk_points sum to
\* max_total_risk_points, its actual_risk_points to total_risk_score, and
\* its rows with answer "No" number number_of_questions_answered_no.
C30_CsvAgreesWithReport ==
    pc = "exported" =>
        /\ Len(rows) = report.number_of_questions
        /\ \A i \in DOMAIN rows :
               /\ i \in DOMAIN all_questions
               /\ rows[i].question = Trimmed(FieldOf(all_questions[i].identifier, 1))
               /\ rows[i].potential_risk_points = all_questions[i].points
               /\ (rows[i].answer = <<"N", "o">>) = ~all_questions[i].yes_no_value
        /\ SumOver(DOMAIN rows, Column("potential_risk_points")) = report.max_total_risk_points
        /\ SumOver(DOMAIN rows, Column("actual_risk_points")) = report.total_risk_score
        /\ Cardinality({i \in DOMAIN rows : rows[i].answer = <<"N", "o">>}) =
               report.number_of_questions_answered_no

\* two rows in two categories, the first answered yes with points that do
\* not score, the second answered no and scoring
C30_Witness ==
    /\ pc = "exported"
    /\ Len(rows) = 2
    /\ rows[1].category # rows[2].category
    /\ rows[1].question = <<"Q">>
    /\ rows[1].answer = <<"Y", "e", "s">>
    /\ rows[2].question = <<"a", " ", "b">>
    /\ report.max_total_risk_points = 6
    /\ report.total_risk_score = 3
    /\ report.number_of_questions_answered_no = 1

====
